---- MODULE Spec2Model ----
(***************************************************************************)
(* Transport layer of canvas_lms_connector: the single request attempt,    *)
(* the retry loop of send_http_request, the global request semaphore, the  *)
(* paginated fetch loops built on top of them, the operations that repeat  *)
(* or send requests themselves, the loading of the credentials, and the    *)
(* students and assignments caches of a CourseInfo shared by threads.      *)
(***************************************************************************)
EXTENDS Integers, Sequences, FiniteSets, TLC

(* ------------------------------ bounds --------------------------------- *)

\* caller threads that invoke send_http_request directly
NumCallers == 2

\* further caller threads, tracked only by how many of their attempts are in flight
NumOthers == 21

\* elements the server sends in the pages a paginated fetch is followed through
MaxElems == 3

\* elements of the longest page the server answers with
MaxPageLen == 2

\* 403 answers the server gives in the course of one paginated fetch
Max403 == 1

\* assignment ids fetch_submissions_for_assignments is called with
MaxIds == 2

\* times the user enters credentials when asked by set_system_credentials
MaxEntries == 2

\* students enrolled in the course, and assignments of the course
RosterLen == 2

(* -------------------------- program constants -------------------------- *)

SIMULTANEOUS_REQUESTS_LIMIT == 20

max_attempts == 5

\* attempts of the operations that repeat a failed send_http_request
SYNC_ATTEMPT == 10

\* uploads comment_with_binary_file tries (its local max_attempts)
upload_max_attempts == 3

\* status code reported for an attempt that got no HTTP response
TransportErrorCode == 0

Callers == 1..NumCallers

\* the HTTP statuses the server answers with
HttpStatuses == {200, 401, 403, 404, 500}

\* a body that is not read, or that does not parse as a JSON array
NoBody == [json |-> FALSE, elems |-> <<>>]

\* the JSON objects a page can hold: two complete ones and one without a name
JsonElems ==
  { [id |-> 1, name |-> TRUE, email |-> TRUE, course_code |-> TRUE],
    [id |-> 2, name |-> TRUE, email |-> TRUE, course_code |-> TRUE],
    [id |-> 3, name |-> FALSE, email |-> TRUE, course_code |-> TRUE] }

PageArrays == UNION {[1..n -> JsonElems] : n \in 0..MaxPageLen}

\* the bodies of a 2xx answer to a page request
Bodies == {[json |-> TRUE, elems |-> a] : a \in PageArrays} \cup {NoBody}

PaginatedOps == {"fetch_courses", "fetch_students", "fetch_assignments", "get_all_submissions"}

\* the caller that runs the paginated fetch
PageCallers == {1}

\* what the network can do to one attempt: no response at all, or a response
NetOutcomes ==
  {[resp |-> FALSE, status |-> -1]} \cup {[resp |-> TRUE, status |-> s] : s \in HttpStatuses}

VARIABLES
  op,        \* op[t]: the public operation caller t runs ("none" before it calls)
  pc,        \* pc[t]: "idle", "call" (inside send_http_request), "done"
  out,       \* out[t]: what the operation returned
  rpc,       \* rpc[t]: position inside send_http_request: "none", "loop", "inflight", "done"
  attempts,  \* attempts[t]: the retry loop's counter
  ret,       \* ret[t]: what send_http_request returned
  sent,      \* sent[t]: requests dispatched by the current send_http_request call
  hist,      \* hist[t]: network outcome of every attempt of the current call, in order
  others,    \* attempts of the further callers that are in flight
  permits,   \* count of SEMAPHORE
  page,      \* page[t]: the paginated loop's page number
  all,       \* all[t]: the loop's accumulator (all_courses, all_students, ...)
  served,    \* served[t]: the arrays of the pages the loop has parsed so far, in order
  total,     \* total[t]: requests dispatched since the operation was invoked
  n403,      \* n403[t]: 403 answers received since the operation was invoked
  reqpage,   \* reqpage[t]: the "page" query parameter of the current call's request (0: none)
  wire,      \* wire[t]: the kinds of request the operation has put on the wire
  step,      \* step[t]: the request of the operation that is under way ("none" outside)
  attempt,   \* attempt[t]: the counter of the operation's own retry loop
  calls,     \* calls[t]: send_http_request invocations made for the current logical request
  todo,      \* todo[t]: the items the operation's for loop has still to visit
  arg,       \* arg[t]: the arguments the operation was called with, and its environment
  direct,    \* direct[t]: network outcome of the latest request the operation sent itself
  creds,     \* creds[t]: the CanvasCredentialType that credentials() holds
  asked,     \* asked[t]: the assignment ids of the urls the operation has requested, in order
  students_cache,     \* CourseInfo.students_cache: the Vec behind the Mutex
  assignments_cache,  \* CourseInfo.assignments_cache: the Vec behind the Mutex
  owner,     \* owner[m]: the thread that holds the guard of Mutex m (0: unlocked)
  cop,       \* cop[t]: the method of Course or CourseInfo thread t runs
  cpc,       \* cpc[t]: thread t's position in that method
  cout,      \* cout[t]: what the method returned
  cl,        \* cl[t]: thread t's position inside CourseInfo::clone ("none" outside)
  clones     \* clones[t]: CourseInfo::clone calls made by the canvas::fetch_students under way

\* the variables of the operations built from several requests
opvars == <<step, attempt, calls, todo, arg, direct, creds>>

\* the variables of one CourseInfo and of the threads that share it
cachevars == <<students_cache, assignments_cache, owner, cop, cpc, cout, cl, clones>>

vars ==
  <<op, pc, out, rpc, attempts, ret, sent, hist, others, permits, page, all, served, total, n403,
    reqpage, wire, step, attempt, calls, todo, arg, direct, creds, asked,
    students_cache, assignments_cache, owner, cop, cpc, cout, cl, clones>>

(* ------------------------- pure functions ------------------------------ *)

\* reqwest StatusCode::is_success
is_success(status) == status >= 200 /\ status <= 299

Ok(status, body) == [ok |-> TRUE, status |-> status, body |-> body, err |-> <<>>]

Err(e) == [ok |-> FALSE, status |-> -1, body |-> NoBody, err |-> e]

NoResult == [ok |-> FALSE, status |-> -1, body |-> NoBody, err |-> <<"pending">>]

\* a single attempt that drops the status of a non-2xx response
single_attempt_result_no_status(o, body) ==
  IF o.resp /\ is_success(o.status) THEN [ok |-> TRUE, status |-> o.status, body |-> body]
  ELSE [ok |-> FALSE, status |-> TransportErrorCode, body |-> NoBody]

\* the match on request_builder.send(): Result<Response, u16>
single_attempt_result(o, body) ==
  IF o.resp /\ is_success(o.status) THEN [ok |-> TRUE, status |-> o.status, body |-> body]
  ELSE IF o.resp THEN [ok |-> FALSE, status |-> o.status, body |-> NoBody]
  ELSE [ok |-> FALSE, status |-> TransportErrorCode, body |-> NoBody]

\* a retry guard that retries every HTTP error status
should_retry_any_error(status, n) == status >= 400 /\ n < max_attempts - 1

\* a retry guard that stops one attempt early
should_retry_one_short(status, n) == status = 403 /\ n < max_attempts - 2

\* a retry guard that also retries transport failures
should_retry_transport(status, n) ==
  (status = 403 \/ status = TransportErrorCode) /\ n < max_attempts - 1

\* the guard of the retrying match arm
should_retry(status, n) == status = 403 /\ n < max_attempts - 1

\* a match that accepts a success only while retries remain
attempt_verdict_last_fails(r, n) ==
  IF r.ok /\ n < max_attempts - 1 THEN "return_ok"
  ELSE IF ~r.ok /\ should_retry(r.status, n) THEN "retry"
  ELSE "return_err"

\* the arm the retry loop's match takes for attempt result r with n retries done
attempt_verdict(r, n) ==
  IF r.ok THEN "return_ok"
  ELSE IF should_retry(r.status, n) THEN "retry"
  ELSE "return_err"

\* io::Error(Other, format!("HTTP request failed with status code: {}", status))
status_error(status) == <<"Other", "HTTP request failed with status code: ", status>>

\* io::Error(PermissionDenied, "All retry attempts failed with status 403")
exhausted_error == <<"PermissionDenied", "All retry attempts failed with status 403">>

\* serde_json Value accessors followed by `?`: Some(object) as <<object>>, None as <<>>
convert_json_to_course(e) ==
  IF e.id > 0 /\ e.name /\ e.course_code THEN <<[kind |-> "Course", id |-> e.id]>> ELSE <<>>

convert_json_to_student(e) ==
  IF e.id > 0 /\ e.name /\ e.email THEN <<[kind |-> "Student", id |-> e.id]>> ELSE <<>>

convert_json_to_assignment(e) ==
  IF e.id > 0 /\ e.name THEN <<[kind |-> "Assignment", id |-> e.id]>> ELSE <<>>

\* what one element of a page contributes to the accumulator of operation o
\* (get_all_submissions keeps the raw JSON value)
mapper(o, e) ==
  CASE o = "fetch_courses" -> convert_json_to_course(e)
    [] o = "fetch_students" -> convert_json_to_student(e)
    [] o = "fetch_assignments" -> convert_json_to_assignment(e)
    [] OTHER -> <<[kind |-> "Value", id |-> e.id]>>

\* a collection that ends at the first element the mapper rejects
RECURSIVE filter_map_stop_at_none(_, _)
filter_map_stop_at_none(o, elems) ==
  IF elems = <<>> \/ mapper(o, Head(elems)) = <<>> THEN <<>>
  ELSE mapper(o, Head(elems)) \o filter_map_stop_at_none(o, Tail(elems))

\* iter().filter_map(mapper) collected in order
RECURSIVE filter_map(_, _)
filter_map(o, elems) ==
  IF elems = <<>> THEN <<>> ELSE mapper(o, Head(elems)) \o filter_map(o, Tail(elems))

\* an accumulation that keeps only the newest page
extend_overwrite(acc, items) == items

\* an accumulation that puts the new items in front
extend_prepend(acc, items) == items \o acc

\* Vec::extend: the new items go after the ones already there
extend(acc, items) == acc \o items

\* a variant that steps over a page
next_page_skip(p) == p + 2

\* page += 1
next_page(p) == p + 1

\* an end test that takes a page of at most one element for the last one
page_is_short(elems) == Len(elems) <= 1

\* the test that ends the pagination: the parsed page is_empty()
page_is_empty(elems) == Len(elems) = 0

\* number of elements in a sequence of pages
RECURSIVE count_elems(_)
count_elems(pages) == IF pages = <<>> THEN 0 ELSE Len(Head(pages)) + count_elems(Tail(pages))

\* results of the paginated operations
FetchOk(items) == [ok |-> TRUE, value |-> items, err |-> <<>>]

FetchErr(e) == [ok |-> FALSE, value |-> <<>>, err |-> e]

NoOutcome == [ok |-> FALSE, value |-> <<>>, err |-> <<"pending">>]

\* the error of a fetch whose send_http_request failed with e
request_failed(o, e) ==
  IF o = "fetch_courses" THEN <<"ErrConnection", "Failed to fetch courses with error: ", e>>
  ELSE <<"Err", "Failed to fetch with error: ", e>>

\* the error of a fetch that got an Ok response whose status is no success
status_failed(o, status) ==
  IF o = "fetch_courses" THEN <<"ErrCredentials", "Failed to fetch courses with status: ", status>>
  ELSE <<"Err", "Failed to fetch with status: ", status>>

\* the error of a fetch whose page body could not be read as a JSON array
parse_failed(o) ==
  IF o = "fetch_courses" THEN <<"ErrCredentials", "Failed to parse courses JSON with error: ">>
  ELSE <<"Err", "json">>

\* a parse failure that hands back what was accumulated so far
parse_error_result_keeps(o, acc) == FetchOk(acc)

\* the arm of the match on the parsed page that takes the parse error: the whole
\* fetch returns it, and the accumulator acc is dropped
parse_error_result(o, acc) == FetchErr(parse_failed(o))

\* the request send_http_request_single_attempt builds: to url under url_canvas, with
\* bearer_auth(token_canvas), inside the retry loop
api_request == [to |-> "url_canvas", bearer |-> TRUE, retried |-> TRUE]

\* no arguments, and an environment without credentials
NoArg ==
  [ids |-> <<>>, file |-> FALSE, group_category |-> FALSE, found |-> FALSE, rubric |-> FALSE,
   feature |-> FALSE, env_url |-> "unset", env_token |-> "unset", kr_url |-> FALSE, kr_token |-> FALSE]

\* the two Mutex fields of CourseInfo
Mutexes == {"students_cache", "assignments_cache"}

\* no request sent by the operation itself yet
NoAnswer == [resp |-> FALSE, status |-> -2]

\* CanvasCredentialType::None
NoCreds == [kind |-> "None"]

(* ------------------------------ state ---------------------------------- *)

Init ==
  /\ op = [t \in Callers |-> "none"]
  /\ pc = [t \in Callers |-> "idle"]
  /\ out = [t \in Callers |-> NoOutcome]
  /\ rpc = [t \in Callers |-> "none"]
  /\ attempts = [t \in Callers |-> 0]
  /\ ret = [t \in Callers |-> NoResult]
  /\ sent = [t \in Callers |-> 0]
  /\ hist = [t \in Callers |-> <<>>]
  /\ others = 0
  /\ permits = SIMULTANEOUS_REQUESTS_LIMIT
  /\ page = [t \in Callers |-> 0]
  /\ all = [t \in Callers |-> <<>>]
  /\ served = [t \in Callers |-> <<>>]
  /\ total = [t \in Callers |-> 0]
  /\ n403 = [t \in Callers |-> 0]
  /\ reqpage = [t \in Callers |-> 0]
  /\ wire = [t \in Callers |-> {}]
  /\ step = [t \in Callers |-> "none"]
  /\ attempt = [t \in Callers |-> 0]
  /\ calls = [t \in Callers |-> 0]
  /\ todo = [t \in Callers |-> <<>>]
  /\ arg = [t \in Callers |-> NoArg]
  /\ direct = [t \in Callers |-> NoAnswer]
  /\ creds = [t \in Callers |-> NoCreds]
  /\ asked = [t \in Callers |-> <<>>]
  /\ students_cache = <<>>
  /\ assignments_cache = <<>>
  /\ owner = [m \in Mutexes |-> 0]
  /\ cop = [t \in Callers |-> "none"]
  /\ cpc = [t \in Callers |-> "idle"]
  /\ cout = [t \in Callers |-> NoOutcome]
  /\ cl = [t \in Callers |-> "none"]
  /\ clones = [t \in Callers |-> 0]

\* number of requests dispatched and not yet completed, over all callers
InFlight == Cardinality({t \in Callers : rpc[t] = "inflight"}) + others

(* ------------------------ send_http_request ---------------------------- *)

\* entry of send_http_request: let mut attempts = 0
enter_send_http_request(t) ==
  /\ rpc' = [rpc EXCEPT ![t] = "loop"]
  /\ attempts' = [attempts EXCEPT ![t] = 0]
  /\ ret' = [ret EXCEPT ![t] = NoResult]
  /\ sent' = [sent EXCEPT ![t] = 0]
  /\ hist' = [hist EXCEPT ![t] = <<>>]

\* a caller invokes send_http_request for one plain request
Invoke(t) ==
  /\ pc[t] = "idle"
  /\ op' = [op EXCEPT ![t] = "request"]
  /\ pc' = [pc EXCEPT ![t] = "call"]
  /\ enter_send_http_request(t)
  /\ total' = [total EXCEPT ![t] = 0]
  /\ n403' = [n403 EXCEPT ![t] = 0]
  /\ reqpage' = [reqpage EXCEPT ![t] = 0]
  /\ wire' = [wire EXCEPT ![t] = {}]
  /\ UNCHANGED <<out, others, permits, page, all, served, opvars>>
  /\ UNCHANGED asked
  /\ UNCHANGED cachevars

\* head of the retry loop: the loop condition, then request_builder.send() of
\* send_http_request_single_attempt (no use of SEMAPHORE precedes it)
Dispatch(t) ==
  /\ rpc[t] = "loop"
  /\ IF attempts[t] < max_attempts
     THEN /\ rpc' = [rpc EXCEPT ![t] = "inflight"]
          /\ sent' = [sent EXCEPT ![t] = @ + 1]
          /\ total' = [total EXCEPT ![t] = @ + 1]
          /\ wire' = [wire EXCEPT ![t] = @ \cup {api_request}]
          /\ UNCHANGED ret
     ELSE /\ rpc' = [rpc EXCEPT ![t] = "done"]
          /\ ret' = [ret EXCEPT ![t] = Err(exhausted_error)]
          /\ UNCHANGED <<sent, total, wire>>
  /\ UNCHANGED <<op, pc, out, attempts, hist, others, permits, page, all, served, n403, reqpage, opvars>>
  /\ UNCHANGED asked
  /\ UNCHANGED cachevars

\* the attempt completes with network outcome o (and body, for a 2xx response):
\* the match of send_http_request_single_attempt, then the match of the retry loop
Complete(t, o, body) ==
  /\ rpc[t] = "inflight"
  /\ hist' = [hist EXCEPT ![t] = Append(@, o)]
  /\ n403' = [n403 EXCEPT ![t] = IF o.resp /\ o.status = 403 THEN @ + 1 ELSE @]
  /\ LET r == single_attempt_result(o, body)
         v == attempt_verdict(r, attempts[t])
     IN
       IF v = "return_ok"
       THEN /\ ret' = [ret EXCEPT ![t] = Ok(r.status, r.body)]
            /\ rpc' = [rpc EXCEPT ![t] = "done"]
            /\ UNCHANGED attempts
       ELSE IF v = "retry"
       THEN /\ attempts' = [attempts EXCEPT ![t] = @ + 1]
            /\ rpc' = [rpc EXCEPT ![t] = "loop"]
            /\ UNCHANGED ret
       ELSE /\ ret' = [ret EXCEPT ![t] = Err(status_error(r.status))]
            /\ rpc' = [rpc EXCEPT ![t] = "done"]
            /\ UNCHANGED attempts
  /\ UNCHANGED <<op, pc, out, sent, others, permits, page, all, served, total, reqpage, wire, opvars>>
  /\ UNCHANGED asked
  /\ UNCHANGED cachevars

(* ------------------- the global request semaphore --------------------- *)

\* one of the further callers dispatches an attempt: request_builder.send()
OtherDispatch ==
  /\ others < NumOthers
  /\ others' = others + 1
  /\ UNCHANGED <<op, pc, out, rpc, attempts, ret, sent, hist, permits, page, all, served, total, n403, reqpage,
                  wire, opvars>>
  /\ UNCHANGED asked
  /\ UNCHANGED cachevars

\* an attempt of a further caller completes, with any outcome
OtherComplete ==
  /\ others > 0
  /\ others' = others - 1
  /\ UNCHANGED <<op, pc, out, rpc, attempts, ret, sent, hist, permits, page, all, served, total, n403, reqpage,
                  wire, opvars>>
  /\ UNCHANGED asked
  /\ UNCHANGED cachevars

(* ----------------------- the paginated fetches ------------------------- *)

\* fetch_courses_with_credentials, fetch_students, fetch_assignments, get_all_submissions
\* up to the first send_http_request: empty accumulator, page = 1
InvokeFetch(t, o) ==
  /\ pc[t] = "idle"
  /\ op' = [op EXCEPT ![t] = o]
  /\ pc' = [pc EXCEPT ![t] = "call"]
  /\ page' = [page EXCEPT ![t] = 1]
  /\ all' = [all EXCEPT ![t] = <<>>]
  /\ served' = [served EXCEPT ![t] = <<>>]
  /\ total' = [total EXCEPT ![t] = 0]
  /\ n403' = [n403 EXCEPT ![t] = 0]
  /\ reqpage' = [reqpage EXCEPT ![t] = page'[t]]
  /\ wire' = [wire EXCEPT ![t] = {}]
  /\ enter_send_http_request(t)
  /\ UNCHANGED <<out, others, permits, opvars>>
  /\ UNCHANGED asked
  /\ UNCHANGED cachevars

\* the operation returns r
finish(t, r) ==
  /\ pc' = [pc EXCEPT ![t] = "done"]
  /\ out' = [out EXCEPT ![t] = r]
  /\ UNCHANGED <<rpc, attempts, ret, sent, hist, page, all, served, reqpage>>

\* the body of the loop after send_http_request returned: the match on its result,
\* the parse of the page, the emptiness test, the extend and the next iteration's call
PageResult(t) ==
  /\ pc[t] = "call" /\ op[t] \in PaginatedOps /\ rpc[t] = "done"
  /\ LET r == ret[t] IN
       IF ~r.ok THEN finish(t, FetchErr(request_failed(op[t], r.err)))
       ELSE IF ~is_success(r.status) THEN finish(t, FetchErr(status_failed(op[t], r.status)))
       ELSE IF ~r.body.json THEN finish(t, parse_error_result(op[t], all[t]))
       ELSE IF page_is_empty(r.body.elems)
       THEN /\ pc' = [pc EXCEPT ![t] = "done"]
            /\ out' = [out EXCEPT ![t] = FetchOk(all[t])]
            /\ served' = [served EXCEPT ![t] = Append(@, r.body.elems)]
            /\ UNCHANGED <<rpc, attempts, ret, sent, hist, page, all, reqpage>>
       ELSE /\ count_elems(served[t]) + Len(r.body.elems) <= MaxElems
            /\ all' = [all EXCEPT ![t] = extend(@, filter_map(op[t], r.body.elems))]
            /\ served' = [served EXCEPT ![t] = Append(@, r.body.elems)]
            /\ page' = [page EXCEPT ![t] = next_page(@)]
            /\ reqpage' = [reqpage EXCEPT ![t] = page'[t]]
            /\ enter_send_http_request(t)
            /\ UNCHANGED <<pc, out>>
  /\ UNCHANGED <<op, others, permits, total, n403, wire, opvars>>
  /\ UNCHANGED asked
  /\ UNCHANGED cachevars

(* -------------- operations with a retry loop of their own -------------- *)

\* the caller that runs the operations of this and the following sections
OpCallers == {1}

\* a response body holding one JSON value: unparsable, without the fields the reader
\* asks for (elems empty), or an object that has them
JsonObject == [id |-> 1, name |-> TRUE, email |-> TRUE, course_code |-> TRUE]

ObjBodies == {NoBody, [json |-> TRUE, elems |-> <<>>], [json |-> TRUE, elems |-> <<JsonObject>>]}

\* Box<dyn Error> built from a message and its detail
op_error(msg, detail) == <<"Err", msg, detail>>

\* common start of an operation called with arguments a
start_op(t, o, a) ==
  /\ pc[t] = "idle"
  /\ op' = [op EXCEPT ![t] = o]
  /\ arg' = [arg EXCEPT ![t] = a]
  /\ total' = [total EXCEPT ![t] = 0]
  /\ n403' = [n403 EXCEPT ![t] = 0]
  /\ wire' = [wire EXCEPT ![t] = {}]
  /\ direct' = [direct EXCEPT ![t] = NoAnswer]
  /\ UNCHANGED <<others, permits, page, served, reqpage>>

\* the operation returns r
op_return(t, r) ==
  /\ pc' = [pc EXCEPT ![t] = "done"]
  /\ out' = [out EXCEPT ![t] = r]
  /\ UNCHANGED <<rpc, attempts, ret, sent, hist, step, attempt, calls>>

\* one more send_http_request for the logical request that is under way
call_again(t, a) ==
  /\ attempt' = [attempt EXCEPT ![t] = a]
  /\ calls' = [calls EXCEPT ![t] = @ + 1]
  /\ enter_send_http_request(t)
  /\ UNCHANGED <<pc, out, step>>

\* the first send_http_request for the logical request s
call_first(t, s) ==
  /\ pc' = [pc EXCEPT ![t] = "call"]
  /\ step' = [step EXCEPT ![t] = s]
  /\ calls' = [calls EXCEPT ![t] = 1]
  /\ enter_send_http_request(t)

\* update_assignment_score: if attempt == 0 { return Err(..) }
score_gives_up(a) == a = 0

\* update_assignment_score up to its first send_http_request: let mut attempt = SYNC_ATTEMPT
InvokeUpdateScore(t) ==
  /\ start_op(t, "update_assignment_score", NoArg)
  /\ UNCHANGED creds
  /\ attempt' = [attempt EXCEPT ![t] = SYNC_ATTEMPT]
  /\ call_first(t, "score")
  /\ UNCHANGED <<out, all, todo>>
  /\ UNCHANGED asked
  /\ UNCHANGED cachevars

\* the match on the result of send_http_request in the loop of update_assignment_score,
\* then attempt -= 1, the sleep and the next iteration's call
UpdateScoreResult(t) ==
  /\ pc[t] = "call" /\ op[t] = "update_assignment_score" /\ rpc[t] = "done"
  /\ LET r == ret[t] IN
       IF r.ok /\ is_success(r.status) THEN op_return(t, FetchOk(<<>>))
       ELSE IF score_gives_up(attempt[t])
       THEN op_return(t, FetchErr(IF r.ok
                                  THEN op_error("Failed to update score with status: ", r.status)
                                  ELSE op_error("Failed to update score with error: ", r.err)))
       ELSE call_again(t, attempt[t] - 1)
  /\ UNCHANGED <<op, others, permits, page, all, served, total, n403, reqpage, wire, todo, arg, direct, creds>>
  /\ UNCHANGED asked
  /\ UNCHANGED cachevars

\* a loop that gives up after the first failed invocation
last_attempt_is_first(a) == a = 0

\* fetch_submissions_for_assignments: if attempt == SYNC_ATTEMPT - 1 { return Err(..) }
last_attempt(a) == a = SYNC_ATTEMPT - 1

\* serde_json::from_value::<Submission> of the response body, Some as <<submission>>
deserialize_submission(body) ==
  IF body.elems = <<>> THEN <<>> ELSE <<[kind |-> "Submission", id |-> body.elems[1].id]>>

\* a push that puts the new submission in front
push_front(v, x) == <<x>> \o v

\* submissions.push(submission)
push(v, x) == Append(v, x)

\* the submission read from the answer to the request for assignment_id
answer_to(assignment_id, s) == [kind |-> s.kind, id |-> s.id, asked |-> assignment_id]

\* the assignment_ids the operation is called with
IdLists == UNION {[1..n -> 1..2] : n \in 0..MaxIds}

\* fetch_submissions_for_assignments up to its first send_http_request: an empty
\* assignment_ids returns Ok(vec![]) without any request
InvokeFetchSubmissions(t, ids) ==
  /\ start_op(t, "fetch_submissions_for_assignments", [NoArg EXCEPT !.ids = ids])
  /\ UNCHANGED creds
  /\ all' = [all EXCEPT ![t] = <<>>]
  /\ todo' = [todo EXCEPT ![t] = ids]
  /\ IF ids = <<>>
     THEN /\ pc' = [pc EXCEPT ![t] = "done"]
          /\ out' = [out EXCEPT ![t] = FetchOk(<<>>)]
          /\ asked' = [asked EXCEPT ![t] = <<>>]
          /\ UNCHANGED <<rpc, attempts, ret, sent, hist, step, attempt, calls>>
     ELSE /\ attempt' = [attempt EXCEPT ![t] = 0]
          /\ asked' = [asked EXCEPT ![t] = <<Head(ids)>>]
          /\ call_first(t, "submission")
          /\ UNCHANGED out
  /\ UNCHANGED cachevars

\* the match on the result of send_http_request in the inner loop of
\* fetch_submissions_for_assignments, then the next attempt or the next assignment id
SubmissionResult(t) ==
  /\ pc[t] = "call" /\ op[t] = "fetch_submissions_for_assignments" /\ rpc[t] = "done"
  /\ LET r == ret[t]
         s == deserialize_submission(r.body)
     IN
       IF r.ok
       THEN IF ~is_success(r.status)
            THEN /\ op_return(t, FetchErr(op_error("Failed to fetch submissions with error: (a)", r.status)))
                 /\ UNCHANGED <<all, todo, asked>>
            ELSE IF ~r.body.json \/ s = <<>>
            THEN /\ op_return(t, FetchErr(op_error("json", <<>>)))
                 /\ UNCHANGED <<all, todo, asked>>
            ELSE /\ all' = [all EXCEPT ![t] = push(@, answer_to(Head(todo[t]), s[1]))]
                 /\ todo' = [todo EXCEPT ![t] = Tail(@)]
                 /\ IF Tail(todo[t]) = <<>>
                    THEN op_return(t, FetchOk(all'[t])) /\ UNCHANGED asked
                    ELSE /\ attempt' = [attempt EXCEPT ![t] = 0]
                         /\ asked' = [asked EXCEPT ![t] = Append(@, Head(Tail(todo[t])))]
                         /\ call_first(t, "submission")
                         /\ UNCHANGED out
       ELSE /\ IF last_attempt(attempt[t])
               THEN op_return(t, FetchErr(op_error("Failed to fetch submissions with error: (b)", r.err)))
               ELSE call_again(t, attempt[t] + 1)
            /\ UNCHANGED <<all, todo, asked>>
  /\ UNCHANGED <<op, others, permits, page, served, total, n403, reqpage, wire, arg, direct, creds>>
  /\ UNCHANGED cachevars

(* ------------- operations that send a request of their own ------------- *)

\* an upload that sends the token along
upload_request_with_bearer == [to |-> "upload_url", bearer |-> TRUE, retried |-> FALSE]

\* client.post(&upload_url).multipart(form).send() of upload_binary_file and upload_file:
\* to the upload_url of the token response, no bearer_auth, outside send_http_request
upload_request == [to |-> "upload_url", bearer |-> FALSE, retried |-> FALSE]

\* client.get(download_url).send() of download_file: to the url of the file's metadata,
\* no bearer_auth, outside send_http_request
download_request == [to |-> "download_url", bearer |-> FALSE, retried |-> FALSE]

\* the operation sends request req itself and waits for its answer at step s
send_direct(t, s, req) ==
  /\ step' = [step EXCEPT ![t] = s]
  /\ total' = [total EXCEPT ![t] = @ + 1]
  /\ wire' = [wire EXCEPT ![t] = @ \cup {req}]
  /\ UNCHANGED <<pc, out, rpc, attempts, ret, sent, hist, attempt, calls>>

\* an upload loop that allows one more upload
upload_gives_up_late(n) == n >= upload_max_attempts + 1

\* comment_with_binary_file: if attempts >= max_attempts { return Err(..) }
upload_gives_up(n) == n >= upload_max_attempts

\* the two operations that add a comment with an optional file
CommentOps == {"comment_with_binary_file", "comment_with_file"}

\* comment_with_file up to its first send_http_request: without a file the request of
\* add_comment; with a file whose metadata cannot be read the error of upload_file;
\* otherwise the token request of upload_file
InvokeCommentFile(t, file, readable) ==
  /\ start_op(t, "comment_with_file", [NoArg EXCEPT !.file = file])
  /\ all' = [all EXCEPT ![t] = <<>>]
  /\ attempt' = [attempt EXCEPT ![t] = 0]
  /\ IF ~file THEN call_first(t, "add_comment") /\ UNCHANGED out
     ELSE IF readable THEN call_first(t, "upload_token") /\ UNCHANGED out
     ELSE /\ pc' = [pc EXCEPT ![t] = "done"]
          /\ out' = [out EXCEPT ![t] = FetchErr(op_error("Error in upload_file: ", <<"io">>))]
          /\ UNCHANGED <<rpc, attempts, ret, sent, hist, step, calls>>
  /\ UNCHANGED <<todo, creds, asked>>
  /\ UNCHANGED cachevars

\* comment_with_binary_file up to its first send_http_request: the token request of
\* upload_binary_file when a file is given, the request of add_comment otherwise
InvokeComment(t, file) ==
  /\ start_op(t, "comment_with_binary_file", [NoArg EXCEPT !.file = file])
  /\ UNCHANGED creds
  /\ all' = [all EXCEPT ![t] = <<>>]
  /\ attempt' = [attempt EXCEPT ![t] = 0]
  /\ IF file THEN call_first(t, "upload_token") ELSE call_first(t, "add_comment")
  /\ UNCHANGED <<out, todo>>
  /\ UNCHANGED asked
  /\ UNCHANGED cachevars

\* the Err arm of the match on upload_binary_file: attempts += 1, then give up or sleep
\* and call upload_binary_file again, which starts with request_upload_token;
\* comment_with_file returns the error of its one upload_file
upload_failed(t, e) ==
  /\ attempt' = [attempt EXCEPT ![t] = @ + 1]
  /\ IF op[t] = "comment_with_file" \/ upload_gives_up(attempt[t] + 1)
     THEN /\ pc' = [pc EXCEPT ![t] = "done"]
          /\ out' = [out EXCEPT ![t] = FetchErr(op_error("Error in upload_binary_file after attempts: ", e))]
          /\ UNCHANGED <<rpc, attempts, ret, sent, hist, step, calls>>
     ELSE /\ step' = [step EXCEPT ![t] = "upload_token"]
          /\ calls' = [calls EXCEPT ![t] = @ + 1]
          /\ enter_send_http_request(t)
          /\ UNCHANGED <<pc, out>>

\* request_upload_token after its send_http_request returned, and upload_binary_file up
\* to the send() of the multipart form
UploadTokenResult(t) ==
  /\ pc[t] = "call" /\ op[t] \in CommentOps /\ step[t] = "upload_token"
  /\ rpc[t] = "done"
  /\ LET r == ret[t] IN
       IF r.ok /\ is_success(r.status) /\ r.body.json /\ r.body.elems # <<>>
       THEN /\ send_direct(t, "upload", upload_request)
            /\ UNCHANGED all
       ELSE /\ upload_failed(t, op_error("Failed to request upload token: ", r.err))
            /\ UNCHANGED <<all, total, wire>>
  /\ UNCHANGED <<op, others, permits, page, served, n403, reqpage, todo, arg, direct, creds>>
  /\ UNCHANGED asked
  /\ UNCHANGED cachevars

\* the multipart upload completes with network outcome o and body: upload_binary_file
\* reads the body as JSON whatever the status, then the match of comment_with_binary_file
\* and, with the file id, the send_http_request of add_comment
UploadComplete(t, o, body) ==
  /\ pc[t] = "call" /\ op[t] \in CommentOps /\ step[t] = "upload"
  /\ direct' = [direct EXCEPT ![t] = o]
  /\ IF o.resp /\ body.json /\ body.elems # <<>>
     THEN /\ all' = [all EXCEPT ![t] = <<body.elems[1].id>>]
          /\ call_first(t, "add_comment")
          /\ UNCHANGED <<out, attempt>>
     ELSE /\ upload_failed(t, op_error("Failed to upload file", <<>>))
          /\ UNCHANGED all
  /\ UNCHANGED <<op, others, permits, page, served, total, n403, reqpage, wire, todo, arg, creds>>
  /\ UNCHANGED asked
  /\ UNCHANGED cachevars

\* add_comment after its send_http_request returned, and the end of
\* comment_with_binary_file
AddCommentResult(t) ==
  /\ pc[t] = "call" /\ op[t] \in CommentOps /\ step[t] = "add_comment"
  /\ rpc[t] = "done"
  /\ IF ret[t].ok
     THEN op_return(t, FetchOk(<<>>))
     ELSE op_return(t, FetchErr(op_error("Error in add_comment: Failed to add comment: ", ret[t].err)))
  /\ UNCHANGED <<op, others, permits, page, all, served, total, n403, reqpage, wire, todo, arg, direct, creds>>
  /\ UNCHANGED asked
  /\ UNCHANGED cachevars

\* download_file up to the send_http_request for the file's metadata
InvokeDownload(t) ==
  /\ start_op(t, "download_file", NoArg)
  /\ UNCHANGED creds
  /\ call_first(t, "metadata")
  /\ UNCHANGED <<out, all, todo, attempt>>
  /\ UNCHANGED asked
  /\ UNCHANGED cachevars

\* download_file after the metadata request returned, up to the send() of the download
MetadataResult(t) ==
  /\ pc[t] = "call" /\ op[t] = "download_file" /\ step[t] = "metadata" /\ rpc[t] = "done"
  /\ LET r == ret[t] IN
       IF ~r.ok
       THEN op_return(t, FetchErr(r.err)) /\ UNCHANGED <<total, wire>>
       ELSE IF ~is_success(r.status)
       THEN /\ op_return(t, FetchErr(op_error("Failed to retrieve file metadata. Status: ", r.status)))
            /\ UNCHANGED <<total, wire>>
       ELSE IF ~r.body.json
       THEN op_return(t, FetchErr(op_error("json", <<>>))) /\ UNCHANGED <<total, wire>>
       ELSE IF r.body.elems = <<>>
       THEN /\ op_return(t, FetchErr(op_error("The download URL or file name was not found in the metadata.", <<>>)))
            /\ UNCHANGED <<total, wire>>
       ELSE send_direct(t, "download", download_request)
  /\ UNCHANGED <<op, others, permits, page, all, served, n403, reqpage, todo, arg, direct, creds>>
  /\ UNCHANGED asked
  /\ UNCHANGED cachevars

\* the download completes with network outcome o; io_ok tells whether the file could
\* be created and written
DownloadComplete(t, o, io_ok) ==
  /\ pc[t] = "call" /\ op[t] = "download_file" /\ step[t] = "download"
  /\ direct' = [direct EXCEPT ![t] = o]
  /\ IF ~o.resp THEN op_return(t, FetchErr(op_error("reqwest", <<>>)))
     ELSE IF ~is_success(o.status)
     THEN op_return(t, FetchErr(op_error("Failed to download the file. Status: ", o.status)))
     ELSE IF ~io_ok THEN op_return(t, FetchErr(op_error("io", <<>>)))
     ELSE op_return(t, FetchOk(<<"output_path">>))
  /\ UNCHANGED <<op, others, permits, page, all, served, total, n403, reqpage, wire, todo, arg, creds>>
  /\ UNCHANGED asked
  /\ UNCHANGED cachevars

(* --------------------- operations of Assignment ------------------------ *)

\* the end of get_submission_from_submission_id: the submission found among the cached
\* ones, built with the group members when the group lookup gave groups
submission_found(found, grouped) ==
  IF found THEN FetchOk(<<[kind |-> "Submission", id |-> 1, grouped |-> grouped]>>)
  ELSE FetchErr(op_error("Submission with id not found", <<>>))

\* Option<RubricDownloaded>: a value without an error side
OptSome(x) == [ok |-> TRUE, value |-> <<x>>, err |-> <<>>]

OptNone == [ok |-> TRUE, value |-> <<>>, err |-> <<>>]

\* get_submission_from_submission_id, called with a cache that holds the submissions and
\* the students, up to the send_http_request of fetch_groups_for_category; an assignment
\* without group_category_id makes fetch_groups_for_assignment fail before any request
InvokeGetSubmission(t, gc, found) ==
  /\ start_op(t, "get_submission_from_submission_id",
              [NoArg EXCEPT !.group_category = gc, !.found = found])
  /\ UNCHANGED creds
  /\ all' = [all EXCEPT ![t] = <<>>]
  /\ todo' = [todo EXCEPT ![t] = <<>>]
  /\ IF gc
     THEN call_first(t, "groups") /\ UNCHANGED <<out, attempt>>
     ELSE /\ pc' = [pc EXCEPT ![t] = "done"]
          /\ out' = [out EXCEPT ![t] = submission_found(found, FALSE)]
          /\ UNCHANGED <<rpc, attempts, ret, sent, hist, step, attempt, calls>>
  /\ UNCHANGED asked
  /\ UNCHANGED cachevars

\* fetch_groups_for_category after its send_http_request returned: an Err, or a body
\* that is no JSON array, leaves fetch_groups_for_assignment by `?`, and the caller's
\* match turns that Err into groups = None
GroupsResult(t) ==
  /\ pc[t] = "call" /\ op[t] = "get_submission_from_submission_id" /\ step[t] = "groups"
  /\ rpc[t] = "done"
  /\ LET r == ret[t] IN
       IF ~r.ok \/ ~r.body.json \/ r.body.elems = <<>>
       THEN /\ op_return(t, submission_found(arg[t].found, FALSE))
            /\ UNCHANGED <<all, todo>>
       ELSE /\ todo' = [todo EXCEPT ![t] = r.body.elems]
            /\ all' = [all EXCEPT ![t] = <<>>]
            /\ call_first(t, "group_users")
            /\ UNCHANGED <<out, attempt>>
  /\ UNCHANGED <<op, others, permits, page, served, total, n403, reqpage, wire, arg, direct, creds>>
  /\ UNCHANGED asked
  /\ UNCHANGED cachevars

\* the request for the users of one group returned: failure as above, else the group
\* enters group_student_map and the loop goes on to the next group
GroupUsersResult(t) ==
  /\ pc[t] = "call" /\ op[t] = "get_submission_from_submission_id" /\ step[t] = "group_users"
  /\ rpc[t] = "done"
  /\ LET r == ret[t] IN
       IF ~r.ok \/ ~r.body.json
       THEN /\ op_return(t, submission_found(arg[t].found, FALSE))
            /\ UNCHANGED <<all, todo>>
       ELSE /\ all' = [all EXCEPT ![t] = Append(@, [kind |-> "Group", id |-> Head(todo[t]).id])]
            /\ todo' = [todo EXCEPT ![t] = Tail(@)]
            /\ IF Tail(todo[t]) = <<>>
               THEN op_return(t, submission_found(arg[t].found, TRUE))
               ELSE call_first(t, "group_users") /\ UNCHANGED <<out, attempt>>
  /\ UNCHANGED <<op, others, permits, page, served, total, n403, reqpage, wire, arg, direct, creds>>
  /\ UNCHANGED asked
  /\ UNCHANGED cachevars

\* Assignment::download_rubric up to the send_http_request of canvas::download_rubric;
\* without a rubric_id it returns None at once
InvokeRubric(t, rubric) ==
  /\ start_op(t, "download_rubric", [NoArg EXCEPT !.rubric = rubric])
  /\ UNCHANGED creds
  /\ IF rubric
     THEN call_first(t, "rubric") /\ UNCHANGED <<out, attempt>>
     ELSE /\ pc' = [pc EXCEPT ![t] = "done"]
          /\ out' = [out EXCEPT ![t] = OptNone]
          /\ UNCHANGED <<rpc, attempts, ret, sent, hist, step, attempt, calls>>
  /\ UNCHANGED <<all, todo>>
  /\ UNCHANGED asked
  /\ UNCHANGED cachevars

\* canvas::download_rubric after its send_http_request returned, then the match of
\* Assignment::download_rubric: every failure is printed and becomes None
RubricResult(t) ==
  /\ pc[t] = "call" /\ op[t] = "download_rubric" /\ step[t] = "rubric" /\ rpc[t] = "done"
  /\ LET r == ret[t] IN
       IF r.ok /\ is_success(r.status) /\ r.body.json /\ r.body.elems # <<>>
       THEN op_return(t, OptSome([kind |-> "Rubric", id |-> r.body.elems[1].id]))
       ELSE op_return(t, OptNone)
  /\ UNCHANGED <<op, others, permits, page, all, served, total, n403, reqpage, wire, todo, arg, direct, creds>>
  /\ UNCHANGED asked
  /\ UNCHANGED cachevars

(* ---------------------------- credentials ------------------------------ *)

\* what an environment variable can be: not set, set to valid Unicode, set to bytes
\* that are not valid Unicode
EnvStates == {"unset", "unicode", "not_unicode"}

\* the environments credentials() runs in
Environments ==
  {[NoArg EXCEPT !.feature = f, !.env_url = u, !.env_token = k, !.kr_url = ku, !.kr_token = kt] :
     f \in BOOLEAN, u \in EnvStates, k \in EnvStates, ku \in BOOLEAN, kt \in BOOLEAN}

\* a reading that takes every variable that is set
env_var_lossy(v) == v # "unset"

\* std::env::var(..) is Ok(..): the variable is present and its value is valid Unicode
env_var(v) == v = "unicode"

\* load_credentials_from_env: Ok(credentials) as <<credentials>>, Err(..) as <<>>
load_credentials_from_env(a) ==
  IF ~a.feature THEN <<>>
  ELSE IF env_var(a.env_url)
  THEN IF env_var(a.env_token) THEN <<[kind |-> "EnvVariables"]>> ELSE <<>>
  ELSE <<>>

\* load_credentials_from_system: both keyring entries have to be readable
load_credentials_from_system(a) ==
  IF a.kr_url THEN IF a.kr_token THEN <<[kind |-> "SystemKeyring"]>> ELSE <<>> ELSE <<>>

\* load_credentials: the environment first, then the keyring
load_credentials(a) ==
  IF load_credentials_from_env(a) # <<>> THEN load_credentials_from_env(a)[1]
  ELSE IF load_credentials_from_system(a) # <<>> THEN load_credentials_from_system(a)[1]
  ELSE NoCreds

\* test_canvas_credentials: Ok(200) as 200, Err(status) as the status, Err(0) without
\* a response
test_canvas_credentials(o) ==
  IF o.resp THEN IF is_success(o.status) THEN 200 ELSE o.status ELSE TransportErrorCode

\* the request of test_canvas_credentials: client.get(url_canvas/users/self) with the
\* Authorization: Bearer header, sent once, outside send_http_request
credentials_test_request == [to |-> "url_canvas", bearer |-> TRUE, retried |-> FALSE]

\* exit(1)
exit_process(t) ==
  /\ pc' = [pc EXCEPT ![t] = "exited"]
  /\ UNCHANGED <<out, rpc, attempts, ret, sent, hist, step, attempt, calls>>

\* credentials() in environment a: load_credentials(), and the arm of the match taken
InvokeCredentials(t, a) ==
  /\ start_op(t, "credentials", a)
  /\ creds' = [creds EXCEPT ![t] = load_credentials(a)]
  /\ pc' = [pc EXCEPT ![t] = "call"]
  /\ step' = [step EXCEPT ![t] = IF load_credentials(a) = NoCreds THEN "prompt" ELSE "loaded"]
  /\ UNCHANGED <<out, rpc, attempts, ret, sent, hist, attempt, calls, all, todo>>
  /\ UNCHANGED asked
  /\ UNCHANGED cachevars

\* credentials were loaded: test_canvas_credentials sends its request
TestStored(t) ==
  /\ pc[t] = "call" /\ op[t] = "credentials" /\ step[t] = "loaded"
  /\ send_direct(t, "test_stored", credentials_test_request)
  /\ UNCHANGED <<op, others, permits, page, all, served, n403, reqpage, todo, arg, direct, creds>>
  /\ UNCHANGED asked
  /\ UNCHANGED cachevars

\* the test of the loaded credentials completes with network outcome o: Ok returns
\* them, every Err prints the status and ends the process
TestStoredComplete(t, o) ==
  /\ pc[t] = "call" /\ op[t] = "credentials" /\ step[t] = "test_stored"
  /\ direct' = [direct EXCEPT ![t] = o]
  /\ IF test_canvas_credentials(o) = 200
     THEN op_return(t, FetchOk(<<creds[t]>>))
     ELSE exit_process(t)
  /\ UNCHANGED <<op, others, permits, page, all, served, total, n403, reqpage, wire, todo, arg, creds>>
  /\ UNCHANGED asked
  /\ UNCHANGED cachevars

\* one round of the loop of set_system_credentials up to the test request: the user
\* declines (credentials() then ends the process), or enters url and token, which are
\* saved to the keyring; a failed save starts the loop again
PromptAnswer(t, yes, url_saved, token_saved) ==
  /\ pc[t] = "call" /\ op[t] = "credentials" /\ step[t] = "prompt"
  /\ yes => total[t] < MaxEntries
  /\ IF ~yes
     THEN exit_process(t) /\ UNCHANGED <<arg, total, wire>>
     ELSE IF ~url_saved
     THEN UNCHANGED <<pc, out, rpc, attempts, ret, sent, hist, step, attempt, calls, arg, total, wire>>
     ELSE IF ~token_saved
     THEN /\ arg' = [arg EXCEPT ![t].kr_url = TRUE]
          /\ UNCHANGED <<pc, out, rpc, attempts, ret, sent, hist, step, attempt, calls, total, wire>>
     ELSE /\ arg' = [arg EXCEPT ![t].kr_url = TRUE, ![t].kr_token = TRUE]
          /\ send_direct(t, "test_new", credentials_test_request)
  /\ UNCHANGED <<op, others, permits, page, all, served, n403, reqpage, todo, direct, creds>>
  /\ UNCHANGED asked
  /\ UNCHANGED cachevars

\* the statuses that make set_system_credentials ask again
incorrect_credentials(status) == status = 401 \/ status = 403

\* the test of the entered credentials completes with network outcome o: Ok returns
\* them as SystemKeyring, 401 and 403 start the loop again, any other Err ends the process
TestNewComplete(t, o) ==
  /\ pc[t] = "call" /\ op[t] = "credentials" /\ step[t] = "test_new"
  /\ direct' = [direct EXCEPT ![t] = o]
  /\ IF test_canvas_credentials(o) = 200
     THEN /\ creds' = [creds EXCEPT ![t] = [kind |-> "SystemKeyring"]]
          /\ op_return(t, FetchOk(<<creds'[t]>>))
     ELSE IF incorrect_credentials(test_canvas_credentials(o))
     THEN /\ step' = [step EXCEPT ![t] = "prompt"]
          /\ UNCHANGED <<pc, out, rpc, attempts, ret, sent, hist, attempt, calls, creds>>
     ELSE exit_process(t) /\ UNCHANGED creds
  /\ UNCHANGED <<op, others, permits, page, all, served, total, n403, reqpage, wire, todo, arg>>
  /\ UNCHANGED asked
  /\ UNCHANGED cachevars

(* --------------------- the caches of one CourseInfo -------------------- *)

\* the threads that share the CourseInfo, and the one that also runs the mutating methods
CacheCallers == {1, 2}

Mutators == {1}

\* the variables of the earlier sections
basevars ==
  <<op, pc, out, rpc, attempts, ret, sent, hist, others, permits, page, all, served, total, n403,
    reqpage, wire, step, attempt, calls, todo, arg, direct, creds, asked>>

\* the thread enters a method of Course: its locals are fresh
reset_caller(t) ==
  /\ op' = [op EXCEPT ![t] = "none"]
  /\ pc' = [pc EXCEPT ![t] = "idle"]
  /\ out' = [out EXCEPT ![t] = NoOutcome]
  /\ rpc' = [rpc EXCEPT ![t] = "none"]
  /\ attempts' = [attempts EXCEPT ![t] = 0]
  /\ ret' = [ret EXCEPT ![t] = NoResult]
  /\ sent' = [sent EXCEPT ![t] = 0]
  /\ hist' = [hist EXCEPT ![t] = <<>>]
  /\ page' = [page EXCEPT ![t] = 0]
  /\ all' = [all EXCEPT ![t] = <<>>]
  /\ served' = [served EXCEPT ![t] = <<>>]
  /\ total' = [total EXCEPT ![t] = 0]
  /\ n403' = [n403 EXCEPT ![t] = 0]
  /\ reqpage' = [reqpage EXCEPT ![t] = 0]
  /\ wire' = [wire EXCEPT ![t] = {}]
  /\ step' = [step EXCEPT ![t] = "none"]
  /\ attempt' = [attempt EXCEPT ![t] = 0]
  /\ calls' = [calls EXCEPT ![t] = 0]
  /\ todo' = [todo EXCEPT ![t] = <<>>]
  /\ arg' = [arg EXCEPT ![t] = NoArg]
  /\ direct' = [direct EXCEPT ![t] = NoAnswer]
  /\ creds' = [creds EXCEPT ![t] = NoCreds]
  /\ asked' = [asked EXCEPT ![t] = <<>>]
  /\ cout' = [cout EXCEPT ![t] = NoOutcome]
  /\ clones' = [clones EXCEPT ![t] = 0]
  /\ UNCHANGED <<others, permits>>

\* the methods that answer from a cache, and the cache each of them uses
CachedFetches == {"fetch_students", "fetch_assignments"}

cache_of(o) == IF o = "fetch_students" THEN "students_cache" ELSE "assignments_cache"

\* the Vec behind Mutex m
cache(m) == IF m = "students_cache" THEN students_cache ELSE assignments_cache

\* the Vec behind Mutex m becomes v
set_cache(m, v) ==
  IF m = "students_cache"
  THEN students_cache' = v /\ UNCHANGED assignments_cache
  ELSE assignments_cache' = v /\ UNCHANGED students_cache

\* Mutex::lock of m by thread t: it returns when no guard of m is alive
lock(t, m) == owner[m] = 0 /\ owner' = [owner EXCEPT ![m] = t]

\* a cache test that never answers from the cache
cache_hit_never(c) == FALSE

\* if !students_cache.is_empty() { return Ok(students_cache.clone()) }
cache_hit(c) == c # <<>>

\* a store that replaces what the cache holds
store_replace(c, items) == items

\* students_cache.extend(students.clone())
store(c, items) == extend(c, items)

\* a clear_cache that locks assignments_cache first
clear_cache_order_reversed == <<"assignments_cache", "students_cache">>

\* clear_cache: the guard of students_cache is taken first and lives to the end of the
\* function, the guard of assignments_cache is taken second
clear_cache_order == <<"students_cache", "assignments_cache">>

\* CourseInfo::clone: the struct expression evaluates its fields in order, and the guards
\* it takes are temporaries of that expression, dropped when it ends
clone_order == <<"students_cache", "assignments_cache">>

\* a wrapper that clears the caches whatever the result
clears_always(r) == TRUE

\* if result.is_ok() { self.clear_cache(); }
clears_on(r) == r.ok

\* CourseInfo::fetch_students and Course::fetch_assignments are called
CourseFetch(t, o) ==
  /\ cpc[t] \in {"idle", "done"}
  /\ cop' = [cop EXCEPT ![t] = o]
  /\ cpc' = [cpc EXCEPT ![t] = "check"]
  /\ reset_caller(t)
  /\ UNCHANGED <<students_cache, assignments_cache, owner, cl>>

\* the first block of the method: lock the cache, answer from it when it holds something,
\* drop the guard at the end of the block
CacheCheck(t) ==
  /\ cpc[t] = "check"
  /\ owner[cache_of(cop[t])] = 0
  /\ IF cache_hit(cache(cache_of(cop[t])))
     THEN /\ cout' = [cout EXCEPT ![t] = FetchOk(cache(cache_of(cop[t])))]
          /\ cpc' = [cpc EXCEPT ![t] = "done"]
     ELSE /\ cpc' = [cpc EXCEPT ![t] = "fetch"]
          /\ UNCHANGED cout
  /\ UNCHANGED <<students_cache, assignments_cache, owner, cop, cl, clones>>
  /\ UNCHANGED basevars

\* the number of CourseInfo::clone calls canvas::fetch_students has to have made before
\* it is through with the page it received: one per element of every parsed page
clones_due(t) ==
  IF op[t] = "fetch_students" /\ ret[t].ok /\ is_success(ret[t].status) /\ ret[t].body.json
  THEN count_elems(served[t]) + Len(ret[t].body.elems)
  ELSE clones[t]

\* canvas::fetch_students evaluates course_info.clone() for the next element of the page
BeginClone(t) ==
  /\ cpc[t] = "fetch" /\ pc[t] = "call" /\ rpc[t] = "done" /\ cl[t] = "none"
  /\ clones[t] < clones_due(t)
  /\ cl' = [cl EXCEPT ![t] = "lock1"]
  /\ UNCHANGED <<students_cache, assignments_cache, owner, cop, cpc, cout, clones>>
  /\ UNCHANGED basevars

\* CourseInfo::clone is called on the shared CourseInfo by the thread itself
CourseClone(t) ==
  /\ cpc[t] \in {"idle", "done"}
  /\ cop' = [cop EXCEPT ![t] = "clone"]
  /\ cpc' = [cpc EXCEPT ![t] = "clone"]
  /\ cl' = [cl EXCEPT ![t] = "lock1"]
  /\ reset_caller(t)
  /\ UNCHANGED <<students_cache, assignments_cache, owner>>

\* clone: self.students_cache.lock().unwrap().clone()
CloneLock1(t) ==
  /\ cl[t] = "lock1"
  /\ lock(t, clone_order[1])
  /\ cl' = [cl EXCEPT ![t] = "lock2"]
  /\ UNCHANGED <<students_cache, assignments_cache, cop, cpc, cout, clones>>
  /\ UNCHANGED basevars

\* clone: self.assignments_cache.lock().unwrap().clone(), then the end of the struct
\* expression, where both guards are dropped
CloneLock2(t) ==
  /\ cl[t] = "lock2"
  /\ owner[clone_order[2]] = 0
  /\ owner' = [owner EXCEPT ![clone_order[1]] = 0]
  /\ cl' = [cl EXCEPT ![t] = "none"]
  /\ IF cop[t] = "clone"
     THEN /\ cpc' = [cpc EXCEPT ![t] = "done"]
          /\ cout' = [cout EXCEPT ![t] = FetchOk(<<students_cache, assignments_cache>>)]
          /\ UNCHANGED clones
     ELSE /\ clones' = [clones EXCEPT ![t] = @ + 1]
          /\ UNCHANGED <<cpc, cout>>
  /\ UNCHANGED <<students_cache, assignments_cache, cop>>
  /\ UNCHANGED basevars

\* a match that takes every result for a list
fetch_is_ok_always(r) == TRUE

\* match canvas::fetch_students(self) { Ok(students) => .., Err(e) => Err(e) }
fetch_is_ok(r) == r.ok

\* the match on the result of canvas::fetch_students / canvas::fetch_assignments:
\* Err(e) => Err(e), and Ok goes on to the lock of the cache
FetchReturn(t) ==
  /\ cpc[t] = "fetch" /\ pc[t] = "done"
  /\ IF fetch_is_ok(out[t])
     THEN /\ cpc' = [cpc EXCEPT ![t] = "store"]
          /\ UNCHANGED cout
     ELSE /\ cpc' = [cpc EXCEPT ![t] = "done"]
          /\ cout' = [cout EXCEPT ![t] = FetchErr(out[t].err)]
  /\ UNCHANGED <<students_cache, assignments_cache, owner, cop, cl, clones>>
  /\ UNCHANGED basevars

\* the Ok arm: lock the cache, extend it with the fetched list, return the cache
Store(t) ==
  /\ cpc[t] = "store"
  /\ owner[cache_of(cop[t])] = 0
  /\ set_cache(cache_of(cop[t]), store(cache(cache_of(cop[t])), out[t].value))
  /\ cout' = [cout EXCEPT ![t] = FetchOk(store(cache(cache_of(cop[t])), out[t].value))]
  /\ cpc' = [cpc EXCEPT ![t] = "done"]
  /\ UNCHANGED <<owner, cop, cl, clones>>
  /\ UNCHANGED basevars

\* Course::clear_cache is called
CourseClear(t) ==
  /\ cpc[t] \in {"idle", "done"}
  /\ cop' = [cop EXCEPT ![t] = "clear_cache"]
  /\ cpc' = [cpc EXCEPT ![t] = "clear1"]
  /\ reset_caller(t)
  /\ UNCHANGED <<students_cache, assignments_cache, owner, cl>>

\* clear_cache: lock the first cache and clear it
ClearLock1(t) ==
  /\ cpc[t] = "clear1"
  /\ lock(t, clear_cache_order[1])
  /\ set_cache(clear_cache_order[1], <<>>)
  /\ cpc' = [cpc EXCEPT ![t] = "clear2"]
  /\ UNCHANGED <<cop, cout, cl, clones>>
  /\ UNCHANGED basevars

\* clear_cache: lock the second cache and clear it, then the end of the function, where
\* both guards are dropped; a wrapper that called it returns its result
ClearLock2(t) ==
  /\ cpc[t] = "clear2"
  /\ owner[clear_cache_order[2]] = 0
  /\ owner' = [owner EXCEPT ![clear_cache_order[1]] = 0]
  /\ set_cache(clear_cache_order[2], <<>>)
  /\ cpc' = [cpc EXCEPT ![t] = "done"]
  /\ cout' = [cout EXCEPT ![t] = IF cop[t] = "clear_cache" THEN FetchOk(<<>>) ELSE out[t]]
  /\ UNCHANGED <<cop, cl, clones>>
  /\ UNCHANGED basevars

\* the methods of Course that change the course on the server
CreateOps == {"create_assignment", "create_announcement"}

MutatingOps == {"update_assignment_score"} \cup CommentOps \cup CreateOps

\* one of them is called
CourseMutate(t, m) ==
  /\ t \in Mutators
  /\ cpc[t] \in {"idle", "done"}
  /\ cop' = [cop EXCEPT ![t] = m]
  /\ cpc' = [cpc EXCEPT ![t] = "mutate"]
  /\ reset_caller(t)
  /\ UNCHANGED <<students_cache, assignments_cache, owner, cl>>

\* canvas::create_assignment and canvas::create_announcement up to their send_http_request
InvokeCreate(t, o) ==
  /\ start_op(t, o, NoArg)
  /\ call_first(t, "create")
  /\ UNCHANGED <<out, all, todo, attempt, creds, asked>>
  /\ UNCHANGED cachevars

\* the match on the result of that send_http_request
CreateResult(t) ==
  /\ pc[t] = "call" /\ op[t] \in CreateOps /\ rpc[t] = "done"
  /\ LET r == ret[t] IN
       IF r.ok /\ is_success(r.status) THEN op_return(t, FetchOk(<<>>))
       ELSE op_return(t, FetchErr(IF r.ok THEN op_error("status", r.status) ELSE op_error("error", r.err)))
  /\ UNCHANGED <<op, others, permits, page, all, served, total, n403, reqpage, wire, todo, arg, direct,
                  creds, asked>>
  /\ UNCHANGED cachevars

\* the wrapper after the function of canvas returned: clear the caches on Ok, then
\* return the result
MutateReturn(t) ==
  /\ cpc[t] = "mutate" /\ pc[t] = "done"
  /\ IF clears_on(out[t])
     THEN /\ cpc' = [cpc EXCEPT ![t] = "clear1"]
          /\ UNCHANGED cout
     ELSE /\ cpc' = [cpc EXCEPT ![t] = "done"]
          /\ cout' = [cout EXCEPT ![t] = out[t]]
  /\ UNCHANGED <<students_cache, assignments_cache, owner, cop, cl, clones>>
  /\ UNCHANGED basevars

\* the outcomes the server gives caller t's page request
PageOutcomes(t) == {o \in NetOutcomes : (o.resp /\ o.status = 403) => n403[t] < Max403}

\* the bodies that can come with outcome o
BodiesFor(o) == IF o.resp /\ is_success(o.status) THEN Bodies ELSE {NoBody}

NextRetry ==
  \E t \in Callers :
    \/ Invoke(t)
    \/ Dispatch(t)
    \/ \E o \in NetOutcomes : Complete(t, o, NoBody)

Spec == Init /\ [][NextRetry]_vars

NextGate == NextRetry \/ OtherDispatch \/ OtherComplete

SpecGate == Init /\ [][NextGate]_vars

NextPage ==
  \E t \in PageCallers :
    \/ \E o \in PaginatedOps : InvokeFetch(t, o)
    \/ Dispatch(t)
    \/ \E o \in PageOutcomes(t) : \E b \in BodiesFor(o) : Complete(t, o, b)
    \/ PageResult(t)

SpecPage == Init /\ [][NextPage]_vars

\* the bodies that can come with outcome o to the request caller t has under way
OpBodiesFor(t, o) ==
  IF ~(o.resp /\ is_success(o.status)) THEN {NoBody}
  ELSE IF step[t] \in {"groups", "group_users"} THEN Bodies
  ELSE ObjBodies

NextOps ==
  \E t \in OpCallers :
    \/ InvokeUpdateScore(t)
    \/ UpdateScoreResult(t)
    \/ \E ids \in IdLists : InvokeFetchSubmissions(t, ids)
    \/ SubmissionResult(t)
    \/ \E file \in BOOLEAN : InvokeComment(t, file)
    \/ UploadTokenResult(t)
    \/ \E o \in NetOutcomes : \E b \in ObjBodies : UploadComplete(t, o, b)
    \/ AddCommentResult(t)
    \/ InvokeDownload(t)
    \/ MetadataResult(t)
    \/ \E o \in NetOutcomes : \E io_ok \in BOOLEAN : DownloadComplete(t, o, io_ok)
    \/ \E gc \in BOOLEAN : \E found \in BOOLEAN : InvokeGetSubmission(t, gc, found)
    \/ GroupsResult(t)
    \/ GroupUsersResult(t)
    \/ \E rubric \in BOOLEAN : InvokeRubric(t, rubric)
    \/ RubricResult(t)
    \/ \E a \in Environments : InvokeCredentials(t, a)
    \/ TestStored(t)
    \/ \E o \in NetOutcomes : TestStoredComplete(t, o)
    \/ \E yes \in BOOLEAN : \E url_saved \in BOOLEAN : \E token_saved \in BOOLEAN :
         PromptAnswer(t, yes, url_saved, token_saved)
    \/ \E o \in NetOutcomes : TestNewComplete(t, o)
    \/ Dispatch(t)
    \/ \E o \in PageOutcomes(t) : \E b \in OpBodiesFor(t, o) : Complete(t, o, b)

SpecOps == Init /\ [][NextOps]_vars

\* the course as the server holds it: RosterLen elements, served one per page
Roster == [i \in 1..RosterLen |-> [id |-> i, name |-> TRUE, email |-> TRUE, course_code |-> TRUE]]

server_page(p) == IF p \in 1..RosterLen THEN <<Roster[p]>> ELSE <<>>

\* the answers of the server to the threads that share the CourseInfo
CacheOutcomes == {[resp |-> TRUE, status |-> 200], [resp |-> TRUE, status |-> 500]}

\* the body that comes with outcome o to the request thread t has under way
CacheBody(t, o) ==
  IF ~is_success(o.status) THEN NoBody
  ELSE IF op[t] \in PaginatedOps THEN [json |-> TRUE, elems |-> server_page(reqpage[t])]
  ELSE [json |-> TRUE, elems |-> <<JsonObject>>]

NextCache ==
  \E t \in CacheCallers :
    \/ \E o \in CachedFetches : CourseFetch(t, o)
    \/ CacheCheck(t)
    \/ cpc[t] = "fetch" /\ InvokeFetch(t, cop[t])
    \/ Dispatch(t)
    \/ \E o \in CacheOutcomes : Complete(t, o, CacheBody(t, o))
    \/ clones[t] = clones_due(t) /\ PageResult(t)
    \/ BeginClone(t)
    \/ CourseClone(t)
    \/ CloneLock1(t)
    \/ CloneLock2(t)
    \/ FetchReturn(t)
    \/ Store(t)
    \/ CourseClear(t)
    \/ ClearLock1(t)
    \/ ClearLock2(t)
    \/ \E m \in MutatingOps : CourseMutate(t, m)
    \/ cpc[t] = "mutate" /\ cop[t] = "update_assignment_score" /\ InvokeUpdateScore(t)
    \/ UpdateScoreResult(t)
    \/ cpc[t] = "mutate" /\ cop[t] = "comment_with_binary_file" /\ \E file \in BOOLEAN : InvokeComment(t, file)
    \/ cpc[t] = "mutate" /\ cop[t] = "comment_with_file" /\ \E file \in BOOLEAN : \E readable \in BOOLEAN :
         InvokeCommentFile(t, file, readable)
    \/ UploadTokenResult(t)
    \/ \E o \in CacheOutcomes : UploadComplete(t, o, CacheBody(t, o))
    \/ AddCommentResult(t)
    \/ cpc[t] = "mutate" /\ cop[t] \in CreateOps /\ InvokeCreate(t, cop[t])
    \/ CreateResult(t)
    \/ MutateReturn(t)

SpecCache == Init /\ [][NextCache]_vars

(* ============================ properties =============================== *)

Is403(o) == o.resp /\ o.status = 403

Is2xx(o) == o.resp /\ o.status >= 200 /\ o.status < 300

IsOtherHttpError(o) == o.resp /\ ~Is2xx(o) /\ o.status # 403

LastOutcome(t) == hist[t][Len(hist[t])]

C2_Exactly5On403 ==
  \A t \in Callers :
    /\ sent[t] <= 5
    /\ (rpc[t] = "done" /\ \A i \in 1..Len(hist[t]) : Is403(hist[t][i])) =>
         (~ret[t].ok /\ sent[t] = 5 /\ Len(hist[t]) = 5)

C2_Witness ==
  \E t \in Callers :
    /\ rpc[t] = "done" /\ ~ret[t].ok /\ sent[t] = 5
    /\ Len(hist[t]) = 5 /\ \A i \in 1..5 : Is403(hist[t][i])

\* C3: a call answered 403 on its first k attempts and 2xx on attempt k+1 has returned
\* success after exactly k+1 requests, for every k up to max_attempts - 1.
C3_SuccessAfterK403 ==
  \A t \in Callers :
    (/\ Len(hist[t]) > 0
     /\ Is2xx(LastOutcome(t))
     /\ \A i \in 1..(Len(hist[t]) - 1) : Is403(hist[t][i])) =>
      /\ rpc[t] = "done"
      /\ ret[t].ok
      /\ sent[t] = Len(hist[t])
      /\ Len(hist[t]) <= 5

C3_Witness ==
  \E t \in Callers :
    /\ Len(hist[t]) = 5 /\ Is2xx(hist[t][5]) /\ \A i \in 1..4 : Is403(hist[t][i])
    /\ rpc[t] = "done" /\ ret[t].ok /\ sent[t] = 5

\* C4: a call that has returned after a failed last attempt returned an error, and every
\* error a call returns carries the status of its last attempt: the HTTP status of the
\* response, or 0 when there was no response.
C4_ErrorCarriesLastStatus ==
  \A t \in Callers :
    rpc[t] = "done" =>
      /\ Len(hist[t]) > 0
      /\ ret[t].ok <=> Is2xx(LastOutcome(t))
      /\ ~ret[t].ok =>
           ret[t].err = <<"Other", "HTTP request failed with status code: ",
                          IF LastOutcome(t).resp THEN LastOutcome(t).status ELSE 0>>

C4_Witness ==
  \E t \in Callers :
    /\ rpc[t] = "done" /\ Len(hist[t]) = 5 /\ Is403(hist[t][5])
    /\ ret[t].err = <<"Other", "HTTP request failed with status code: ", 403>>

C6_InFlightWithinLimit == InFlight <= 20

\* C7: every attempt in flight holds one permit of the semaphore, so the permits left
\* and the attempts in flight always add up to the semaphore's initial count.
C7_PermitPerAttempt == permits + InFlight = 20

(* ---------------------- the paginated fetches -------------------------- *)

LastPage(t) == served[t][Len(served[t])]

\* the elements of one page that operation o keeps, in the page's order
Accepted(o, elems) ==
  LET kept == SelectSeq(elems, LAMBDA e : mapper(o, e) # <<>>)
  IN [i \in 1..Len(kept) |-> mapper(o, kept[i])[1]]

\* the kept elements of pages 1..n, page after page
RECURSIVE AcceptedUpTo(_, _, _)
AcceptedUpTo(o, pages, n) ==
  IF n = 0 THEN <<>> ELSE AcceptedUpTo(o, pages, n - 1) \o Accepted(o, pages[n])

\* the ids of the elements the server sent, page after page
RECURSIVE ServedIds(_, _)
ServedIds(pages, n) ==
  IF n = 0 THEN <<>>
  ELSE ServedIds(pages, n - 1) \o [i \in 1..Len(pages[n]) |-> pages[n][i].id]

\* whether the ids of items can be struck out of ids, left to right, without reuse
RECURSIVE InOrderOf(_, _)
InOrderOf(items, ids) ==
  IF items = <<>> THEN TRUE
  ELSE IF ids = <<>> THEN FALSE
  ELSE IF Head(items).id = Head(ids) THEN InOrderOf(Tail(items), Tail(ids))
  ELSE InOrderOf(items, Tail(ids))

\* C8: a paginated fetch has returned only if the page it fetched last was empty (and
\* then it returned Ok) or its request or the parse of the whole page failed (and then
\* it returned an error); while it has not returned, every page it got was non-empty
\* and it asks for the page after the ones it got: nothing else stops the loop.
C8_ReturnsOnlyOnEmptyOrFailure ==
  \A t \in PageCallers :
    /\ pc[t] = "done" =>
         \/ out[t].ok /\ Len(served[t]) > 0 /\ LastPage(t) = <<>>
         \/ ~out[t].ok /\ (~ret[t].ok \/ ~ret[t].body.json)
    /\ pc[t] = "call" =>
         /\ \A i \in 1..Len(served[t]) : served[t][i] # <<>>
         /\ page[t] = Len(served[t]) + 1

C8_Witness ==
  \E t \in PageCallers :
    /\ pc[t] = "call" /\ rpc[t] = "done" /\ ret[t].ok /\ ret[t].body.json
    /\ ret[t].body.elems # <<>>
    /\ page[t] = MaxElems + 1 /\ Len(served[t]) = MaxElems
    /\ \A i \in 1..Len(served[t]) : served[t][i] # <<>>

\* C9: a fetch that returned Ok got N non-empty pages and then an empty one, sent one
\* request per page plus one per 403 answer (so exactly N+1 when no attempt failed) and
\* returned exactly the elements of pages 1..N that the mapper accepts, short pages
\* included.
C9_RequestsAndElements ==
  \A t \in PageCallers :
    (pc[t] = "done" /\ out[t].ok) =>
      LET N == Len(served[t]) - 1 IN
        /\ N >= 0
        /\ \A i \in 1..N : served[t][i] # <<>>
        /\ served[t][N + 1] = <<>>
        /\ total[t] = N + 1 + n403[t]
        /\ out[t].value = AcceptedUpTo(op[t], served[t], N)

C9_Witness ==
  \E t \in PageCallers :
    /\ pc[t] = "done" /\ out[t].ok /\ n403[t] = 0
    /\ Len(served[t]) = 3 /\ Len(served[t][1]) = 2 /\ Len(served[t][2]) = 1
    /\ total[t] = 3 /\ Len(out[t].value) = 3

\* C10: the accumulated sequence, and the sequence returned, hold the elements in the
\* order the server sent them, page after page and within each page, none twice.
C10_ServerOrderKept ==
  \A t \in PageCallers :
    /\ pc[t] = "call" => InOrderOf(all[t], ServedIds(served[t], Len(served[t])))
    /\ (pc[t] = "done" /\ out[t].ok) =>
         InOrderOf(out[t].value, ServedIds(served[t], Len(served[t])))

C10_Witness ==
  \E t \in PageCallers :
    /\ pc[t] = "done" /\ out[t].ok
    /\ Len(served[t]) = 3 /\ Len(out[t].value) = 3
    /\ out[t].value[1].id = 2 /\ out[t].value[2].id = 1 /\ out[t].value[3].id = 2

\* the operations whose mapper can reject an element
MappedOps == {"fetch_courses", "fetch_students", "fetch_assignments"}

\* the places <<page, index>> of the served elements that operation o's mapper accepts
KeptPlaces(o, pages) ==
  {pl \in UNION {{<<i, j>> : j \in 1..Len(pages[i])} : i \in 1..Len(pages)} :
     mapper(o, pages[pl[1]][pl[2]]) # <<>>}

\* C11: while a paginated fetch runs, the page number its request carries is one more
\* than the number of pages received so far, every one of which was non-empty (so the
\* numbers asked for are 1, 2, 3, ... without gaps), and an attempt that repeats a
\* request after 403 answers carries that same page number.
C11_PagesInOrder ==
  \A t \in PageCallers :
    pc[t] = "call" =>
      /\ reqpage[t] = Len(served[t]) + 1
      /\ reqpage[t] = page[t]
      /\ \A i \in 1..Len(served[t]) : served[t][i] # <<>>
      /\ (rpc[t] = "inflight" /\ sent[t] > 1) =>
           /\ Len(hist[t]) = sent[t] - 1
           /\ \A i \in 1..Len(hist[t]) : Is403(hist[t][i])

C11_Witness ==
  \E t \in PageCallers :
    /\ pc[t] = "call" /\ rpc[t] = "inflight" /\ sent[t] = 2 /\ Is403(hist[t][1])
    /\ reqpage[t] = 3 /\ Len(served[t]) = 2 /\ total[t] = 4

\* C12: in fetch_courses, fetch_students and fetch_assignments the accumulator, and the
\* value returned, hold exactly one item for every served element the mapper accepts,
\* whatever was rejected beside it; a rejected element is no cause of an error, and a
\* fetch returns Ok only after an empty page, never after a page that merely had all
\* its elements rejected.
C12_RejectedElementsOmitted ==
  \A t \in PageCallers :
    op[t] \in MappedOps =>
      LET kept == KeptPlaces(op[t], served[t])
          items == IF pc[t] = "done" THEN out[t].value ELSE all[t]
      IN
        /\ (pc[t] = "call" \/ (pc[t] = "done" /\ out[t].ok)) =>
             /\ Len(items) = Cardinality(kept)
             /\ \A pl \in kept :
                  \E k \in 1..Len(items) : items[k].id = served[t][pl[1]][pl[2]].id
        /\ (pc[t] = "done" /\ out[t].ok) => LastPage(t) = <<>>
        /\ (pc[t] = "done" /\ ~out[t].ok) => (~ret[t].ok \/ ~ret[t].body.json)

C12_Witness ==
  \E t \in PageCallers :
    /\ op[t] \in MappedOps /\ pc[t] = "done" /\ out[t].ok
    /\ Len(served[t]) = 3 /\ Len(served[t][1]) = 2
    /\ KeptPlaces(op[t], served[t]) = {<<2, 1>>}
    /\ Len(out[t].value) = 1

\* C13: a fetch that got a 2xx page whose body is no JSON array has returned an error
\* that holds none of the elements accumulated before, and the request of that page was
\* its last: one request per page parsed before, one for the page that failed, one
\* more per 403 answer.
C13_UnparsablePageFatal ==
  \A t \in PageCallers :
    (pc[t] = "done" /\ ret[t].ok /\ ~ret[t].body.json) =>
      /\ ~out[t].ok
      /\ out[t].value = <<>>
      /\ out[t].err = parse_failed(op[t])
      /\ total[t] = Len(served[t]) + 1 + n403[t]

C13_Witness ==
  \E t \in PageCallers :
    /\ pc[t] = "done" /\ ret[t].ok /\ ~ret[t].body.json /\ ~out[t].ok
    /\ Len(all[t]) = 2 /\ Len(served[t]) = 2 /\ total[t] = 3

\* C17: fetch_courses_with_credentials reports an HTTP 401 answer as ErrCredentials and
\* an attempt that got no response as ErrConnection.
C17_CredentialErrorsDistinguished ==
  \A t \in PageCallers :
    (pc[t] = "done" /\ op[t] = "fetch_courses" /\ ~ret[t].ok /\ hist[t] # <<>>) =>
      /\ (LastOutcome(t).resp /\ LastOutcome(t).status = 401) => out[t].err[1] = "ErrCredentials"
      /\ ~LastOutcome(t).resp => out[t].err[1] = "ErrConnection"

(* ------------------- operations built from requests -------------------- *)

\* the operations that call send_http_request again after it failed
RetryingOps ==
  {"update_assignment_score", "fetch_submissions_for_assignments", "comment_with_binary_file"}

\* C15: an operation whose last request failed has returned an error.
C15_NoFailureSwallowed ==
  \A t \in OpCallers :
    (pc[t] = "done" /\ rpc[t] = "done" /\ ~ret[t].ok) => ~out[t].ok

\* C16 (as claimed): once send_http_request has returned to one of the three operations
\* because of a non-2xx answer other than 403, the operation's next step is to return an
\* error, not to call send_http_request again.
C16_FatalAtOperationLevel ==
  [][\A t \in OpCallers :
       (/\ op[t] \in RetryingOps /\ pc[t] = "call" /\ rpc[t] = "done"
        /\ ~ret[t].ok /\ hist[t] # <<>> /\ IsOtherHttpError(LastOutcome(t)))
       => (pc'[t] = "done" /\ ~out'[t].ok)]_vars

\* C16 (amended): a non-2xx answer other than 403 ends the send_http_request invocation
\* it came in, but the three operations invoke send_http_request again for the same
\* logical request after any failure of it, and return the error only when their own
\* budget is used up: 11 invocations in update_assignment_score, 10 per assignment id in
\* fetch_submissions_for_assignments, 3 token requests (one per upload) in
\* comment_with_binary_file; only the request of add_comment is made once.
C16_FatalAfterOwnRetries ==
  \A t \in OpCallers :
    op[t] \in RetryingOps =>
      /\ \A i \in 1..Len(hist[t]) :
           IsOtherHttpError(hist[t][i]) => (i = Len(hist[t]) /\ rpc[t] = "done" /\ ~ret[t].ok)
      /\ op[t] = "update_assignment_score" =>
           /\ calls[t] <= 11
           /\ (pc[t] = "done" /\ ~out[t].ok) => calls[t] = 11
      /\ op[t] = "fetch_submissions_for_assignments" =>
           /\ calls[t] <= 10
           /\ (pc[t] = "done" /\ ~out[t].ok /\ ~ret[t].ok) => calls[t] = 10
      /\ (op[t] = "comment_with_binary_file" /\ step[t] \in {"upload_token", "upload"}) =>
           /\ calls[t] <= 3
           /\ (pc[t] = "done" /\ ~out[t].ok) => (calls[t] = 3 /\ attempt[t] = 3)
      /\ (op[t] = "comment_with_binary_file" /\ step[t] = "add_comment") =>
           /\ calls[t] = 1
           /\ (pc[t] = "done" /\ ~ret[t].ok) => ~out[t].ok

C16_Witness ==
  \E t \in OpCallers :
    /\ op[t] = "fetch_submissions_for_assignments" /\ pc[t] = "done" /\ ~out[t].ok
    /\ calls[t] = 10 /\ total[t] >= 10
    /\ hist[t] # <<>> /\ IsOtherHttpError(LastOutcome(t))
    /\ Len(arg[t].ids) = 2 /\ Len(all[t]) = 1

\* C20: update_assignment_score invokes send_http_request at most SYNC_ATTEMPT times,
\* and has returned Ok exactly when its latest invocation succeeded.
C20_AtMostSyncAttemptCalls ==
  \A t \in OpCallers :
    op[t] = "update_assignment_score" =>
      /\ calls[t] <= 10
      /\ (pc[t] = "done" /\ out[t].ok) => ret[t].ok
      /\ (pc[t] = "done" /\ ret[t].ok) => out[t].ok

C18_PromptedUnlessValid ==
  \A t \in OpCallers :
    op[t] = "credentials" =>
      /\ pc[t] = "done" => (out[t].ok /\ test_canvas_credentials(direct[t]) = 200)
      /\ pc[t] = "exited" => step[t] \in {"prompt", "test_new"}

\* C19 (as claimed): with the feature enabled, load_credentials_from_env is Ok exactly
\* when CANVAS_URL and CANVAS_TOKEN are both set.
C19_OkIffBothSet ==
  \A t \in OpCallers :
    (op[t] = "credentials" /\ arg[t].feature) =>
      ((creds[t].kind = "EnvVariables") <=>
         (arg[t].env_url # "unset" /\ arg[t].env_token # "unset"))

\* C19 (amended): with the feature enabled, load_credentials_from_env is Ok exactly when
\* CANVAS_URL and CANVAS_TOKEN are both set to valid Unicode; a variable that is unset,
\* or set to a value that is not valid Unicode, gives Err.
C19_OkIffBothUnicode ==
  \A t \in OpCallers :
    (op[t] = "credentials" /\ arg[t].feature) =>
      ((creds[t].kind = "EnvVariables") <=>
         (arg[t].env_url = "unicode" /\ arg[t].env_token = "unicode"))

C19_Witness ==
  \E t \in OpCallers :
    /\ op[t] = "credentials" /\ arg[t].feature /\ pc[t] = "call"
    /\ arg[t].env_url = "unicode" /\ arg[t].env_token = "not_unicode"
    /\ creds[t].kind = "SystemKeyring" /\ step[t] = "loaded"

\* C21: fetch_submissions_for_assignments requests the assignment ids in the order of
\* assignment_ids; when it returns Ok the result holds exactly one submission per entry
\* of assignment_ids, the i-th being the answer to the request for the i-th id; when it
\* returns Err the id under way is the last one it requested, and an Err caused by
\* failed invocations comes after SYNC_ATTEMPT of them.
C21_OneSubmissionPerId ==
  \A t \in OpCallers :
    op[t] = "fetch_submissions_for_assignments" =>
      LET ids == arg[t].ids IN
        /\ Len(asked[t]) <= Len(ids)
        /\ \A i \in 1..Len(asked[t]) : asked[t][i] = ids[i]
        /\ pc[t] = "done" => rpc[t] \notin {"loop", "inflight"}
        /\ (pc[t] = "done" /\ out[t].ok) =>
             /\ asked[t] = ids
             /\ Len(out[t].value) = Len(ids)
             /\ \A i \in 1..Len(ids) : out[t].value[i].asked = ids[i]
        /\ (pc[t] = "done" /\ ~out[t].ok) =>
             /\ Len(asked[t]) = Len(all[t]) + 1
             /\ ~ret[t].ok => calls[t] = SYNC_ATTEMPT

C21_Witness ==
  \E t \in OpCallers :
    /\ op[t] = "fetch_submissions_for_assignments" /\ pc[t] = "done" /\ ~out[t].ok
    /\ ~ret[t].ok /\ calls[t] = SYNC_ATTEMPT
    /\ arg[t].ids = <<2, 1>> /\ asked[t] = <<2>> /\ all[t] = <<>>

\* C22: comment_with_binary_file calls upload_binary_file at most 3 times; the request
\* of add_comment (the comment PUT) is sent only after an upload_binary_file that
\* returned a file id, or when no file is given; when the third upload fails the
\* operation returns an error without ever sending the comment PUT.
C22_CommentAfterUpload ==
  \A t \in OpCallers :
    op[t] = "comment_with_binary_file" =>
      /\ attempt[t] <= upload_max_attempts
      /\ step[t] \in {"upload_token", "upload"} =>
           /\ arg[t].file
           /\ calls[t] = attempt[t] + (IF pc[t] = "done" THEN 0 ELSE 1)
           /\ calls[t] <= upload_max_attempts
           /\ pc[t] = "done" => (~out[t].ok /\ attempt[t] = upload_max_attempts)
      /\ step[t] = "add_comment" =>
           /\ attempt[t] < upload_max_attempts
           /\ arg[t].file => (direct[t].resp /\ Len(all[t]) = 1)
           /\ ~arg[t].file => (direct[t] = NoAnswer /\ all[t] = <<>> /\ attempt[t] = 0)
      /\ attempt[t] = upload_max_attempts => step[t] # "add_comment"

C22_Witness ==
  \E t \in OpCallers :
    /\ op[t] = "comment_with_binary_file" /\ pc[t] = "done" /\ ~out[t].ok
    /\ attempt[t] = upload_max_attempts /\ step[t] = "upload" /\ direct[t].resp
    /\ upload_request \in wire[t]

(* ----------------------- the caches of a CourseInfo -------------------- *)

\* thread t takes a step out of position p of its method
Leaves(t, p) == cpc[t] = p /\ cpc'[t] # p

CachesUnchanged == students_cache' = students_cache /\ assignments_cache' = assignments_cache

\* C23: a fetch_students (fetch_assignments) that finds its cache non-empty returns the
\* cached list at once, has sent no request, and leaves both caches as they are.
C23_NonEmptyCacheAnswers ==
  [][\A t \in CacheCallers :
       (Leaves(t, "check") /\ cache(cache_of(cop[t])) # <<>>) =>
         /\ cpc'[t] = "done"
         /\ cout'[t] = FetchOk(cache(cache_of(cop[t])))
         /\ CachesUnchanged
         /\ pc'[t] = "idle" /\ total'[t] = 0 /\ wire'[t] = {}]_vars

C23_Witness ==
  \E t \in CacheCallers :
    /\ cop[t] = "fetch_students" /\ cpc[t] = "done" /\ pc[t] = "idle" /\ total[t] = 0
    /\ cout[t].ok /\ Len(cout[t].value) = RosterLen /\ cout[t].value = students_cache

\* C24: a mutating method of Course clears the caches exactly when the function of
\* canvas it wraps returned Ok: then both caches are empty when it returns, and a fetch
\* that finds its cache empty goes to the network; when the function returned Err the
\* method returns that Err and has changed neither cache.
C24_ClearedIffOk ==
  [][/\ \A t \in CacheCallers :
          /\ Leaves(t, "mutate") =>
               IF out[t].ok THEN cpc'[t] = "clear1"
               ELSE cpc'[t] = "done" /\ cout'[t] = out[t] /\ ~cout'[t].ok /\ CachesUnchanged
          /\ (Leaves(t, "clear2") /\ cop[t] \in MutatingOps) =>
               /\ out[t].ok /\ cpc'[t] = "done" /\ cout'[t].ok
               /\ students_cache' = <<>> /\ assignments_cache' = <<>>
          /\ (Leaves(t, "check") /\ cache(cache_of(cop[t])) = <<>>) => cpc'[t] = "fetch"
          /\ (cpc[t] = "fetch" /\ pc[t] = "idle" /\ pc'[t] # "idle") =>
               (op'[t] = cop[t] /\ rpc'[t] = "loop" /\ page'[t] = 1)
     /\ ~CachesUnchanged =>
          \E t \in CacheCallers :
            \/ Leaves(t, "store")
            \/ (Leaves(t, "clear1") \/ Leaves(t, "clear2")) /\ (cop[t] \in MutatingOps => out[t].ok)]_vars

C24_Witness ==
  \E t \in Mutators : \E u \in CacheCallers \ {t} :
    /\ cop[t] = "update_assignment_score" /\ cpc[t] = "done" /\ cout[t].ok
    /\ students_cache = <<>> /\ assignments_cache = <<>>
    /\ cop[u] = "fetch_assignments" /\ cpc[u] = "done" /\ cout[u].ok /\ cout[u].value # <<>>

\* C25: when canvas::fetch_students (canvas::fetch_assignments) fails, on whichever
\* page, the method returns Err, hands back none of the elements accumulated so far and
\* changes neither cache.
C25_FailedFetchStoresNothing ==
  [][\A t \in CacheCallers :
       (Leaves(t, "fetch") /\ ~out[t].ok) =>
         /\ cpc'[t] = "done"
         /\ ~cout'[t].ok /\ cout'[t].value = <<>> /\ cout'[t].err = out[t].err
         /\ CachesUnchanged]_vars

C25_Witness ==
  \E t \in CacheCallers :
    /\ cop[t] = "fetch_students" /\ cpc[t] = "done" /\ ~cout[t].ok /\ cout[t].value = <<>>
    /\ Len(served[t]) = RosterLen /\ Len(all[t]) = RosterLen /\ page[t] = RosterLen + 1
    /\ students_cache = <<>>

\* C26: neither cache ever holds the same student (assignment) twice.
C26_NoDuplicateInCache ==
  \A m \in Mutexes : \A i, j \in 1..Len(cache(m)) : i # j => cache(m)[i].id # cache(m)[j].id

\* the Mutex thread t is asking for ("none": it asks for none)
wants(t) ==
  IF cl[t] = "lock1" THEN clone_order[1]
  ELSE IF cl[t] = "lock2" THEN clone_order[2]
  ELSE IF cpc[t] \in {"check", "store"} THEN cache_of(cop[t])
  ELSE IF cpc[t] = "clear1" THEN clear_cache_order[1]
  ELSE IF cpc[t] = "clear2" THEN clear_cache_order[2]
  ELSE "none"

\* thread t waits for a Mutex that is locked
Blocked(t) == wants(t) # "none" /\ owner[wants(t)] # 0

\* t waits, and so does the holder of what it waits for, n times over
RECURSIVE Stuck(_, _)
Stuck(t, n) == Blocked(t) /\ (n = 0 \/ Stuck(owner[wants(t)], n - 1))

\* C27: no thread asks for a Mutex it holds, and no threads wait for each other in a
\* circle: following the holders from any waiting thread leads to one that does not wait.
C27_NoLockCycle ==
  \A t \in CacheCallers :
    /\ Blocked(t) => owner[wants(t)] # t
    /\ ~Stuck(t, Cardinality(CacheCallers))

C27_Witness ==
  \E t, u \in CacheCallers :
    /\ t # u /\ cpc[t] = "clear1" /\ Blocked(t) /\ owner["students_cache"] = u
    /\ cop[u] = "fetch_students" /\ cl[u] = "lock2" /\ ~Blocked(u)
    /\ assignments_cache # <<>>

====
